---- MODULE Spec2Model ----
(***************************************************************************)
(* Model of the dummy cpal host (src/host/dummy/mod.rs).                   *)
(*                                                                         *)
(* A Stream owns an optional audio thread and an optional mpsc Sender.     *)
(* build_output_stream_raw spawns the audio thread, which loops            *)
(* { try_recv; data_callback } until it receives the unit token; Drop      *)
(* sends the token and joins the thread.  The caller's context and every   *)
(* audio thread run in parallel; each action below is one step of one of   *)
(* them, cut at the points where they touch shared state (the channel,     *)
(* the thread's termination).                                              *)
(***************************************************************************)
EXTENDS Naturals, FiniteSets, Sequences, TLC

\* ------------------------------------------------------------------ bounds
\* Number of Stream handles the caller may build.
NumStreams == 2
\* The observer's callback counter stops counting at MaxCalls.  The loop
\* itself is not bounded: it keeps invoking the callback, and the claims
\* about invocations are stated on the thread's position as well.
MaxCalls == 1
\* How many times the teardown logic may be run on one Stream.
MaxDrops == 2

\* How many times next() may be called on one iterator.
MaxNext == 3

Streams == 1..NumStreams

VARIABLES
    kind,          \* which builder made the Stream: "none" (not built yet), "output", "input"
    audio_thread,  \* Stream.audio_thread : Option<JoinHandle<()>>
    sender,        \* Stream.sender : Option<Sender<()>>
    chan,          \* number of unit tokens queued in the mpsc channel
    tpc,           \* position of the audio thread
    dpc,           \* position of the caller inside Drop::drop for the Stream
    calls,         \* invocations of data_callback begun so far (observer, saturating)
    active,        \* invocations of data_callback begun and not yet ended
    drops,         \* how many times Drop::drop has been entered
    sent,          \* tokens sent on the channel so far
    recvd,         \* tokens received by the audio thread so far
    joins,         \* joins begun so far
    errors,        \* invocations of error_callback so far
    first,         \* what the thread's first try_recv found: "unpolled", "empty", "token"
    ret,           \* last call of the caller: its name and how it ended
    host           \* what the host and device queries have returned so far

vars == <<kind, audio_thread, sender, chan, tpc, dpc, calls, active, drops, sent, recvd, joins, errors, first, ret, host>>

streamVars == <<kind, audio_thread, sender, chan, tpc, dpc, calls, active, drops, sent, recvd, joins, errors, first>>

\* ----------------------------------------------------------------- helpers
\* The thread closure owns the Receiver: it is alive from spawn until the
\* closure has returned or unwound.
ReceiverAlive(s) == tpc[s] \in {"start", "poll", "call", "incall", "break"}

\* JoinHandle::join returns once the thread has finished, either way.
ThreadFinished(s) == tpc[s] \in {"exited", "panicked"}

\* Stream handles are numbered in the order the caller builds them.
NextToBuild(s) ==
    /\ kind[s] = "none"
    /\ \A r \in Streams : r < s => kind[r] # "none"

\* The caller's context is inside Drop::drop of some Stream.
CallerBusy == \E s \in Streams : dpc[s] \in {"send", "join", "joining"}

Count(n) == IF n < MaxCalls THEN n + 1 ELSE n

Result(op, res) == [op |-> op, res |-> res]

\* -------------------------------------------------------------- host state
\* Option<T>: a sequence of at most one element.
None == <<>>
Some(x) == <<x>>

\* struct Device; a unit struct, so all its values are equal.
Device == "Device"

\* u32::MAX, as two 16-bit halves.
U32_MAX == [hi |-> 65535, lo |-> 65535]

\* What the caller has got from the host and the device so far.  An iterator
\* is the sequence of what its next() has returned; a query is the value of
\* its last call.  None: not created, not called.
HostInit ==
    [devices |-> None, in_device |-> None, out_device |-> None,
     in_config |-> None, out_config |-> None,
     in_configs |-> None, out_configs |-> None]

\* ------------------------------------------------------------------- Init
Init ==
    /\ kind = [s \in Streams |-> "none"]
    /\ audio_thread = [s \in Streams |-> "None"]
    /\ sender = [s \in Streams |-> "None"]
    /\ chan = [s \in Streams |-> 0]
    /\ tpc = [s \in Streams |-> "none"]
    /\ dpc = [s \in Streams |-> "idle"]
    /\ calls = [s \in Streams |-> 0]
    /\ active = [s \in Streams |-> 0]
    /\ drops = [s \in Streams |-> 0]
    /\ sent = [s \in Streams |-> 0]
    /\ recvd = [s \in Streams |-> 0]
    /\ joins = [s \in Streams |-> 0]
    /\ errors = [s \in Streams |-> 0]
    /\ first = [s \in Streams |-> "unpolled"]
    /\ ret = Result("none", "none")
    /\ host = HostInit

\* ------------------------------------------------------- caller: builders

\* Variant: the builder returns only once the thread has started running.
build_output_stream_raw_WaitsForThread(s) ==
    /\ ~CallerBusy
    /\ NextToBuild(s)
    /\ kind' = [kind EXCEPT ![s] = "output"]
    /\ chan' = [chan EXCEPT ![s] = 0]
    /\ tpc' = [tpc EXCEPT ![s] = "poll"]
    /\ audio_thread' = [audio_thread EXCEPT ![s] = "Some"]
    /\ sender' = [sender EXCEPT ![s] = "Some"]
    /\ ret' = Result("build_output_stream_raw", "Ok")
    /\ UNCHANGED <<dpc, calls, active, drops, sent, recvd, joins>>
    /\ UNCHANGED <<errors, first, host>>

\* Variant: the builder returns the handle without spawning the thread.
build_output_stream_raw_NoSpawn(s) ==
    /\ ~CallerBusy
    /\ NextToBuild(s)
    /\ kind' = [kind EXCEPT ![s] = "output"]
    /\ sender' = [sender EXCEPT ![s] = "Some"]
    /\ ret' = Result("build_output_stream_raw", "Ok")
    /\ UNCHANGED <<audio_thread, chan, tpc, dpc, calls, active, drops, sent, recvd, joins>>
    /\ UNCHANGED <<errors, first, host>>

\* build_output_stream_raw: mpsc::channel(), thread::spawn, Ok(Stream{Some,Some}).
build_output_stream_raw(s) ==
    /\ ~CallerBusy
    /\ NextToBuild(s)
    /\ kind' = [kind EXCEPT ![s] = "output"]
    /\ chan' = [chan EXCEPT ![s] = 0]
    /\ tpc' = [tpc EXCEPT ![s] = "start"]
    /\ audio_thread' = [audio_thread EXCEPT ![s] = "Some"]
    /\ sender' = [sender EXCEPT ![s] = "Some"]
    /\ ret' = Result("build_output_stream_raw", "Ok")
    /\ UNCHANGED <<dpc, calls, active, drops, sent, recvd, joins>>
    /\ UNCHANGED <<errors, first, host>>

\* Variant: the input builder spawns a thread and a channel like the output one.
build_input_stream_raw_Spawns(s) ==
    /\ ~CallerBusy
    /\ NextToBuild(s)
    /\ kind' = [kind EXCEPT ![s] = "input"]
    /\ chan' = [chan EXCEPT ![s] = 0]
    /\ tpc' = [tpc EXCEPT ![s] = "start"]
    /\ audio_thread' = [audio_thread EXCEPT ![s] = "Some"]
    /\ sender' = [sender EXCEPT ![s] = "Some"]
    /\ ret' = Result("build_input_stream_raw", "Ok")
    /\ UNCHANGED <<dpc, calls, active, drops, sent, recvd, joins>>
    /\ UNCHANGED <<errors, first, host>>

\* build_input_stream_raw: Ok(Stream{None,None}), no channel, no thread.
build_input_stream_raw(s) ==
    /\ ~CallerBusy
    /\ NextToBuild(s)
    /\ kind' = [kind EXCEPT ![s] = "input"]
    /\ audio_thread' = [audio_thread EXCEPT ![s] = "None"]
    /\ sender' = [sender EXCEPT ![s] = "None"]
    /\ ret' = Result("build_input_stream_raw", "Ok")
    /\ UNCHANGED <<chan, tpc, dpc, calls, active, drops, sent, recvd, joins>>
    /\ UNCHANGED <<errors, first, host>>

\* ----------------------------------------------------- caller: play/pause
play(s) ==
    /\ ~CallerBusy
    /\ kind[s] # "none"
    /\ ret' = Result("play", "Ok")
    /\ UNCHANGED streamVars
    /\ UNCHANGED host


\* Variant: pause signals the audio thread to stop.
pause_StopsLoop(s) ==
    /\ ~CallerBusy
    /\ kind[s] # "none"
    /\ ret' = Result("pause", "Ok")
    /\ IF sender[s] = "Some" /\ ReceiverAlive(s)
       THEN /\ sender' = [sender EXCEPT ![s] = "None"]
            /\ chan' = [chan EXCEPT ![s] = @ + 1]
            /\ sent' = [sent EXCEPT ![s] = @ + 1]
       ELSE UNCHANGED <<sender, chan, sent>>
    /\ UNCHANGED <<kind, audio_thread, tpc, dpc, calls, active, drops, recvd, joins>>
    /\ UNCHANGED <<errors, first, host>>

pause(s) ==
    /\ ~CallerBusy
    /\ kind[s] # "none"
    /\ ret' = Result("pause", "Ok")
    /\ UNCHANGED streamVars
    /\ UNCHANGED host

\* ------------------------------------------------------ caller: Drop::drop
\* The caller enters Drop::drop.  The first entry is the Stream going out of
\* scope; a later one is the teardown logic forced to run again on the
\* fields the previous run left behind.
DropBegin(s) ==
    /\ ~CallerBusy
    /\ kind[s] # "none"
    /\ dpc[s] \in {"idle", "done"}
    /\ drops[s] < MaxDrops
    /\ dpc' = [dpc EXCEPT ![s] = "send"]
    /\ drops' = [drops EXCEPT ![s] = @ + 1]
    /\ ret' = Result("drop", "running")
    /\ UNCHANGED <<kind, audio_thread, sender, chan, tpc, calls, active, sent, recvd, joins>>
    /\ UNCHANGED <<errors, first, host>>


\* Variant: the token goes to every live receiver, not only the Stream's own.
DropSend_Broadcast(s) ==
    /\ dpc[s] = "send"
    /\ IF sender[s] = "Some"
       THEN /\ sender' = [sender EXCEPT ![s] = "None"]
            /\ IF ReceiverAlive(s)
               THEN /\ chan' = [r \in Streams |-> IF ReceiverAlive(r) THEN chan[r] + 1 ELSE chan[r]]
                    /\ sent' = [sent EXCEPT ![s] = @ + 1]
                    /\ dpc' = [dpc EXCEPT ![s] = "join"]
                    /\ UNCHANGED <<audio_thread, ret>>
               ELSE /\ dpc' = [dpc EXCEPT ![s] = "faulted"]
                    /\ audio_thread' = [audio_thread EXCEPT ![s] = "None"]
                    /\ ret' = Result("drop", "panic")
                    /\ UNCHANGED <<chan, sent>>
       ELSE /\ dpc' = [dpc EXCEPT ![s] = "join"]
            /\ UNCHANGED <<sender, chan, sent, audio_thread, ret>>
    /\ UNCHANGED <<kind, tpc, calls, active, drops, recvd, joins>>
    /\ UNCHANGED <<errors, first, host>>

\* Variant: the sender is used in place, not taken out of the Stream.
DropSend_NoTake(s) ==
    /\ dpc[s] = "send"
    /\ IF sender[s] = "Some"
       THEN IF ReceiverAlive(s)
            THEN /\ chan' = [chan EXCEPT ![s] = @ + 1]
                 /\ sent' = [sent EXCEPT ![s] = @ + 1]
                 /\ dpc' = [dpc EXCEPT ![s] = "join"]
                 /\ UNCHANGED <<sender, audio_thread, ret>>
            ELSE /\ dpc' = [dpc EXCEPT ![s] = "faulted"]
                 /\ sender' = [sender EXCEPT ![s] = "None"]
                 /\ audio_thread' = [audio_thread EXCEPT ![s] = "None"]
                 /\ ret' = Result("drop", "panic")
                 /\ UNCHANGED <<chan, sent>>
       ELSE /\ dpc' = [dpc EXCEPT ![s] = "join"]
            /\ UNCHANGED <<sender, chan, sent, audio_thread, ret>>
    /\ UNCHANGED <<kind, tpc, calls, active, drops, recvd, joins>>
    /\ UNCHANGED <<errors, first, host>>

\* Variant: the sender is taken and dropped, nothing is sent.
DropSend_NoSend(s) ==
    /\ dpc[s] = "send"
    /\ sender' = [sender EXCEPT ![s] = "None"]
    /\ dpc' = [dpc EXCEPT ![s] = "join"]
    /\ UNCHANGED <<kind, audio_thread, chan, tpc, calls, active, drops, sent, recvd, joins, ret>>
    /\ UNCHANGED <<errors, first, host>>

\* if let Some(sender) = self.sender.take() { sender.send(()).unwrap(); }
\* send fails exactly when the Receiver has been dropped; the unwrap then
\* panics, and the unwinding drops the remaining fields (the JoinHandle is
\* dropped unjoined).
DropSend(s) ==
    /\ dpc[s] = "send"
    /\ IF sender[s] = "Some"
       THEN /\ sender' = [sender EXCEPT ![s] = "None"]
            /\ IF ReceiverAlive(s)
               THEN /\ chan' = [chan EXCEPT ![s] = @ + 1]
                    /\ sent' = [sent EXCEPT ![s] = @ + 1]
                    /\ dpc' = [dpc EXCEPT ![s] = "join"]
                    /\ UNCHANGED <<audio_thread, ret>>
               ELSE /\ dpc' = [dpc EXCEPT ![s] = "faulted"]
                    /\ audio_thread' = [audio_thread EXCEPT ![s] = "None"]
                    /\ ret' = Result("drop", "panic")
                    /\ UNCHANGED <<chan, sent>>
       ELSE /\ dpc' = [dpc EXCEPT ![s] = "join"]
            /\ UNCHANGED <<sender, chan, sent, audio_thread, ret>>
    /\ UNCHANGED <<kind, tpc, calls, active, drops, recvd, joins>>
    /\ UNCHANGED <<errors, first, host>>


\* Variant: the JoinHandle is taken and dropped, the thread is not joined.
DropJoinBegin_NoJoin(s) ==
    /\ dpc[s] = "join"
    /\ audio_thread' = [audio_thread EXCEPT ![s] = "None"]
    /\ dpc' = [dpc EXCEPT ![s] = "done"]
    /\ ret' = Result("drop", "returned")
    /\ UNCHANGED <<kind, sender, chan, tpc, calls, active, drops, sent, recvd, joins>>
    /\ UNCHANGED <<errors, first, host>>

\* Variant: the thread is joined but the handle stays in the Stream.
DropJoinBegin_NoTake(s) ==
    /\ dpc[s] = "join"
    /\ IF audio_thread[s] = "Some"
       THEN /\ joins' = [joins EXCEPT ![s] = @ + 1]
            /\ dpc' = [dpc EXCEPT ![s] = "joining"]
            /\ UNCHANGED ret
       ELSE /\ dpc' = [dpc EXCEPT ![s] = "done"]
            /\ ret' = Result("drop", "returned")
            /\ UNCHANGED joins
    /\ UNCHANGED <<kind, audio_thread, sender, chan, tpc, calls, active, drops, sent, recvd>>
    /\ UNCHANGED <<errors, first, host>>

\* if let Some(thread) = self.audio_thread.take() { thread.join() ... }
\* With no thread to join, drop returns here.
DropJoinBegin(s) ==
    /\ dpc[s] = "join"
    /\ IF audio_thread[s] = "Some"
       THEN /\ audio_thread' = [audio_thread EXCEPT ![s] = "None"]
            /\ joins' = [joins EXCEPT ![s] = @ + 1]
            /\ dpc' = [dpc EXCEPT ![s] = "joining"]
            /\ UNCHANGED ret
       ELSE /\ dpc' = [dpc EXCEPT ![s] = "done"]
            /\ ret' = Result("drop", "returned")
            /\ UNCHANGED <<audio_thread, joins>>
    /\ UNCHANGED <<kind, sender, chan, tpc, calls, active, drops, sent, recvd>>
    /\ UNCHANGED <<errors, first, host>>


\* Variant: the join returns without waiting for the thread to finish.
DropJoinEnd_NoWait(s) ==
    /\ dpc[s] = "joining"
    /\ IF tpc[s] = "panicked"
       THEN /\ dpc' = [dpc EXCEPT ![s] = "faulted"]
            /\ ret' = Result("drop", "panic")
       ELSE /\ dpc' = [dpc EXCEPT ![s] = "done"]
            /\ ret' = Result("drop", "returned")
    /\ UNCHANGED <<kind, audio_thread, sender, chan, tpc, calls, active, drops, sent, recvd, joins>>
    /\ UNCHANGED <<errors, first, host>>

\* thread.join().unwrap(): blocks until the thread has finished; Err (and
\* so a panic of the caller) when the thread panicked.
DropJoinEnd(s) ==
    /\ dpc[s] = "joining"
    /\ ThreadFinished(s)
    /\ IF tpc[s] = "panicked"
       THEN /\ dpc' = [dpc EXCEPT ![s] = "faulted"]
            /\ ret' = Result("drop", "panic")
       ELSE /\ dpc' = [dpc EXCEPT ![s] = "done"]
            /\ ret' = Result("drop", "returned")
    /\ UNCHANGED <<kind, audio_thread, sender, chan, tpc, calls, active, drops, sent, recvd, joins>>
    /\ UNCHANGED <<errors, first, host>>

\* ------------------------------------------------------------ audio thread
\* Variant: the loop body runs the callback before its first poll.
ThreadSetup_CallFirst(s) ==
    /\ tpc[s] = "start"
    /\ tpc' = [tpc EXCEPT ![s] = "call"]
    /\ UNCHANGED <<kind, audio_thread, sender, chan, dpc, calls, active, drops, sent, recvd, joins, ret>>
    /\ UNCHANGED <<errors, first, host>>

\* Lines 138-147: the buffer, the Data view and the callback info.
ThreadSetup(s) ==
    /\ tpc[s] = "start"
    /\ tpc' = [tpc EXCEPT ![s] = "poll"]
    /\ UNCHANGED <<kind, audio_thread, sender, chan, dpc, calls, active, drops, sent, recvd, joins, ret>>
    /\ UNCHANGED <<errors, first, host>>


\* Variant: the result of try_recv is ignored, the loop never breaks.
ThreadPoll_IgnoreToken(s) ==
    /\ tpc[s] = "poll"
    /\ first' = [first EXCEPT ![s] = IF @ = "unpolled" THEN (IF chan[s] > 0 THEN "token" ELSE "empty") ELSE @]
    /\ tpc' = [tpc EXCEPT ![s] = "call"]
    /\ UNCHANGED <<kind, audio_thread, sender, chan, dpc, calls, active, drops, sent, recvd, joins, ret>>
    /\ UNCHANGED <<errors, host>>

\* Variant: the loop also breaks when try_recv finds the channel empty.
ThreadPoll_BreakOnEmpty(s) ==
    /\ tpc[s] = "poll"
    /\ first' = [first EXCEPT ![s] = IF @ = "unpolled" THEN (IF chan[s] > 0 THEN "token" ELSE "empty") ELSE @]
    /\ tpc' = [tpc EXCEPT ![s] = "break"]
    /\ IF chan[s] > 0
       THEN /\ chan' = [chan EXCEPT ![s] = @ - 1]
            /\ recvd' = [recvd EXCEPT ![s] = @ + 1]
       ELSE UNCHANGED <<chan, recvd>>
    /\ UNCHANGED <<kind, audio_thread, sender, dpc, calls, active, drops, sent, joins, ret>>
    /\ UNCHANGED <<errors, host>>

\* if let Ok(()) = receiver.try_recv() { break; }
\* try_recv is Ok exactly when a token is queued (Empty and Disconnected
\* both fall through to the callback).
ThreadPoll(s) ==
    /\ tpc[s] = "poll"
    /\ first' = [first EXCEPT ![s] = IF @ = "unpolled" THEN (IF chan[s] > 0 THEN "token" ELSE "empty") ELSE @]
    /\ IF chan[s] > 0
       THEN /\ chan' = [chan EXCEPT ![s] = @ - 1]
            /\ recvd' = [recvd EXCEPT ![s] = @ + 1]
            /\ tpc' = [tpc EXCEPT ![s] = "break"]
       ELSE /\ tpc' = [tpc EXCEPT ![s] = "call"]
            /\ UNCHANGED <<chan, recvd>>
    /\ UNCHANGED <<kind, audio_thread, sender, dpc, calls, active, drops, sent, joins, ret>>
    /\ UNCHANGED <<errors, host>>

\* data_callback(&mut data, &info): the invocation begins.
CallbackInvoke(s) ==
    /\ tpc[s] = "call"
    /\ tpc' = [tpc EXCEPT ![s] = "incall"]
    /\ calls' = [calls EXCEPT ![s] = Count(@)]
    /\ active' = [active EXCEPT ![s] = @ + 1]
    /\ UNCHANGED <<kind, audio_thread, sender, chan, dpc, drops, sent, recvd, joins, ret>>
    /\ UNCHANGED <<errors, first, host>>


\* Variant: the channel is polled once before the loop, not in every iteration.
CallbackReturn_SkipsPoll(s) ==
    /\ tpc[s] = "incall"
    /\ tpc' = [tpc EXCEPT ![s] = "call"]
    /\ active' = [active EXCEPT ![s] = @ - 1]
    /\ UNCHANGED <<kind, audio_thread, sender, chan, dpc, calls, drops, sent, recvd, joins, ret>>
    /\ UNCHANGED <<errors, first, host>>

\* Variant: the closure ends after one invocation instead of looping.
CallbackReturn_NoLoop(s) ==
    /\ tpc[s] = "incall"
    /\ tpc' = [tpc EXCEPT ![s] = "break"]
    /\ active' = [active EXCEPT ![s] = @ - 1]
    /\ UNCHANGED <<kind, audio_thread, sender, chan, dpc, calls, drops, sent, recvd, joins, ret>>
    /\ UNCHANGED <<errors, first, host>>

\* The invocation returns normally: back to the top of the loop.
CallbackReturn(s) ==
    /\ tpc[s] = "incall"
    /\ tpc' = [tpc EXCEPT ![s] = "poll"]
    /\ active' = [active EXCEPT ![s] = @ - 1]
    /\ UNCHANGED <<kind, audio_thread, sender, chan, dpc, calls, drops, sent, recvd, joins, ret>>
    /\ UNCHANGED <<errors, first, host>>

\* Variant: a panic of the data callback is reported through error_callback.
CallbackPanic_ReportsError(s) ==
    /\ tpc[s] = "incall"
    /\ tpc' = [tpc EXCEPT ![s] = "panicked"]
    /\ active' = [active EXCEPT ![s] = @ - 1]
    /\ errors' = [errors EXCEPT ![s] = @ + 1]
    /\ UNCHANGED <<kind, audio_thread, sender, chan, dpc, calls, drops, sent, recvd, joins, ret>>
    /\ UNCHANGED <<first, host>>

\* The invocation panics: the thread unwinds, dropping the Receiver, and
\* finishes with an Err result.
CallbackPanic(s) ==
    /\ tpc[s] = "incall"
    /\ tpc' = [tpc EXCEPT ![s] = "panicked"]
    /\ active' = [active EXCEPT ![s] = @ - 1]
    /\ UNCHANGED <<kind, audio_thread, sender, chan, dpc, calls, drops, sent, recvd, joins, ret>>
    /\ UNCHANGED <<errors, first, host>>

\* After break the closure returns, its captures are dropped and the thread
\* finishes.
ThreadExit(s) ==
    /\ tpc[s] = "break"
    /\ tpc' = [tpc EXCEPT ![s] = "exited"]
    /\ UNCHANGED <<kind, audio_thread, sender, chan, dpc, calls, active, drops, sent, recvd, joins, ret>>
    /\ UNCHANGED <<errors, first, host>>

\* ------------------------------------------------------------------- Next
ThreadStep(s) ==
    \/ ThreadSetup(s)
    \/ ThreadPoll(s)
    \/ CallbackInvoke(s)
    \/ CallbackReturn(s)
    \/ CallbackPanic(s)
    \/ ThreadExit(s)

DropStep(s) ==
    \/ DropSend(s)
    \/ DropJoinBegin(s)
    \/ DropJoinEnd(s)

Next ==
    \E s \in Streams :
        \/ build_output_stream_raw(s)
        \/ build_input_stream_raw(s)
        \/ play(s)
        \/ pause(s)
        \/ DropBegin(s)
        \/ DropSend(s)
        \/ DropJoinBegin(s)
        \/ DropJoinEnd(s)
        \/ ThreadSetup(s)
        \/ ThreadPoll(s)
        \/ CallbackInvoke(s)
        \/ CallbackReturn(s)
        \/ CallbackPanic(s)
        \/ ThreadExit(s)

Spec == Init /\ [][Next]_vars

\* The scheduler runs every audio thread that can take a step, and the
\* caller, once inside drop, keeps executing it.  Building, playing,
\* pausing and starting a teardown are the caller's choice: no fairness.
Fairness ==
    \A s \in Streams : WF_vars(ThreadStep(s)) /\ WF_vars(DropStep(s))

LiveSpec == Spec /\ Fairness

\* ------------------------------------------------- caller: host and device
\* Host::devices: Devices::new(), always Ok, a fresh iterator.
devices ==
    /\ host' = [host EXCEPT !.devices = Some(<<>>)]
    /\ ret' = Result("devices", "Ok")
    /\ UNCHANGED streamVars

\* Variant: the iterator yields the synthetic device once.
Devices_next_YieldsDevice ==
    /\ host.devices # None
    /\ Len(host.devices[1]) < MaxNext
    /\ host' = [host EXCEPT !.devices =
                   Some(Append(host.devices[1],
                               IF Len(host.devices[1]) = 0 THEN Some(Device) ELSE None))]
    /\ ret' = Result("Devices::next", IF Len(host.devices[1]) = 0 THEN "Some" ELSE "None")
    /\ UNCHANGED streamVars

\* Iterator for Devices: next() is None.
Devices_next ==
    /\ host.devices # None
    /\ Len(host.devices[1]) < MaxNext
    /\ host' = [host EXCEPT !.devices = Some(Append(host.devices[1], None))]
    /\ ret' = Result("Devices::next", "None")
    /\ UNCHANGED streamVars

\* Host::default_input_device: Some(Device).
default_input_device ==
    /\ host' = [host EXCEPT !.in_device = Some(Some(Device))]
    /\ ret' = Result("default_input_device", "Some")
    /\ UNCHANGED streamVars

\* Host::default_output_device: Some(Device {}).
default_output_device ==
    /\ host' = [host EXCEPT !.out_device = Some(Some(Device))]
    /\ ret' = Result("default_output_device", "Some")
    /\ UNCHANGED streamVars

\* Device::supported_input_configs: Ok(SupportedInputConfigs {}).
supported_input_configs ==
    /\ host' = [host EXCEPT !.in_configs = Some(<<>>)]
    /\ ret' = Result("supported_input_configs", "Ok")
    /\ UNCHANGED streamVars

\* Device::supported_output_configs: Ok(SupportedOutputConfigs {}).
supported_output_configs ==
    /\ host' = [host EXCEPT !.out_configs = Some(<<>>)]
    /\ ret' = Result("supported_output_configs", "Ok")
    /\ UNCHANGED streamVars

\* Iterator for SupportedInputConfigs: next() is None.
SupportedInputConfigs_next ==
    /\ host.in_configs # None
    /\ Len(host.in_configs[1]) < MaxNext
    /\ host' = [host EXCEPT !.in_configs = Some(Append(host.in_configs[1], None))]
    /\ ret' = Result("SupportedInputConfigs::next", "None")
    /\ UNCHANGED streamVars

\* Iterator for SupportedOutputConfigs: next() is None.
SupportedOutputConfigs_next ==
    /\ host.out_configs # None
    /\ Len(host.out_configs[1]) < MaxNext
    /\ host' = [host EXCEPT !.out_configs = Some(Append(host.out_configs[1], None))]
    /\ ret' = Result("SupportedOutputConfigs::next", "None")
    /\ UNCHANGED streamVars

\* Device::default_input_config.
default_input_config ==
    /\ host' = [host EXCEPT !.in_config =
                   Some([channels |-> 1,
                         sample_rate |-> 48000,
                         buffer_size |-> [min |-> 0, max |-> U32_MAX],
                         sample_format |-> "F32"])]
    /\ ret' = Result("default_input_config", "Ok")
    /\ UNCHANGED streamVars

\* Variant: the output descriptor drifts from the input one.
default_output_config_Stereo ==
    /\ host' = [host EXCEPT !.out_config =
                   Some([channels |-> 2,
                         sample_rate |-> 48000,
                         buffer_size |-> [min |-> 0, max |-> U32_MAX],
                         sample_format |-> "F32"])]
    /\ ret' = Result("default_output_config", "Ok")
    /\ UNCHANGED streamVars

\* Device::default_output_config.
default_output_config ==
    /\ host' = [host EXCEPT !.out_config =
                   Some([channels |-> 1,
                         sample_rate |-> 48000,
                         buffer_size |-> [min |-> 0, max |-> U32_MAX],
                         sample_format |-> "F32"])]
    /\ ret' = Result("default_output_config", "Ok")
    /\ UNCHANGED streamVars

\* The queries are stateless and share nothing with the Streams: they are
\* explored on their own.
HostNext ==
    \/ devices
    \/ Devices_next
    \/ default_input_device
    \/ default_output_device
    \/ supported_input_configs
    \/ supported_output_configs
    \/ SupportedInputConfigs_next
    \/ SupportedOutputConfigs_next
    \/ default_input_config
    \/ default_output_config

HostSpec == Init /\ [][HostNext]_vars

\* ------------------------------------------------------------------ claims
\* Drop::drop has returned at least once for the Stream.
TornDown(s) == dpc[s] = "done" \/ drops[s] > 1

\* The caller is inside Drop::drop of the Stream.
InTeardown(s) == dpc[s] \in {"send", "join", "joining"}

ThreadRunning(s) == tpc[s] \in {"start", "poll", "call", "incall", "break"}

\* C1: once drop of a Stream has returned, no step begins an invocation of
\* its data callback and the count of invocations does not change.
C1_NoCallbackAfterTeardown ==
    [][\A s \in Streams :
          TornDown(s) =>
              /\ calls'[s] = calls[s]
              /\ active'[s] = active[s]
              /\ ~(tpc[s] # "incall" /\ tpc'[s] = "incall")]_vars

\* A teardown has returned on an output Stream whose callback had run.
C1_Witness ==
    \E s \in Streams : kind[s] = "output" /\ dpc[s] = "done" /\ calls[s] >= 1

\* C2: under fair scheduling, a teardown that has started, at whatever point,
\* returns, unless an invocation of the callback panics.
C2_TeardownTerminates ==
    \A s \in Streams :
        InTeardown(s) ~> (dpc[s] = "done" \/ tpc[s] = "panicked")

\* The caller is already blocked in the join while the audio thread has not
\* taken a single step.
C2_Witness ==
    \E s \in Streams :
        kind[s] = "output" /\ dpc[s] = "joining" /\ tpc[s] = "start" /\ calls[s] = 0

\* C3: a second run of the teardown logic finds both fields absent, sends
\* nothing, joins nothing, does not fault and changes nothing of the Stream.
C3_TeardownIdempotent ==
    [][\A s \in Streams :
          /\ drops'[s] > 1 => (audio_thread'[s] = "None" /\ sender'[s] = "None")
          /\ drops[s] > 1 =>
                /\ audio_thread'[s] = audio_thread[s]
                /\ sender'[s] = sender[s]
                /\ chan'[s] = chan[s]
                /\ sent'[s] = sent[s]
                /\ joins'[s] = joins[s]
                /\ dpc'[s] \notin {"joining", "faulted"}]_vars

\* The second teardown of an output Stream has returned.
C3_Witness ==
    \E s \in Streams :
        kind[s] = "output" /\ drops[s] > 1 /\ dpc[s] = "done" /\ sent[s] = 1 /\ joins[s] = 1

\* C4: whenever a join has begun, the token has been sent.
C4_SendBeforeJoin ==
    \A s \in Streams : joins[s] > 0 => sent[s] > 0

\* The caller is blocked in the join while the token is still in the channel.
C4_Witness ==
    \E s \in Streams : dpc[s] = "joining" /\ chan[s] = 1 /\ ThreadRunning(s)

\* C5: drop faults only when an invocation of the callback has panicked;
\* as long as none has, a Stream that still holds its sender has a live
\* Receiver (the send succeeds) and a thread that has not panicked (the join
\* succeeds).
C5_TeardownNeverFaults ==
    \A s \in Streams :
        /\ dpc[s] = "faulted" => tpc[s] = "panicked"
        /\ (sender[s] = "Some" /\ tpc[s] # "panicked") => ReceiverAlive(s)

\* A first teardown of an output Stream has sent, joined and returned.
C5_Witness ==
    \E s \in Streams :
        kind[s] = "output" /\ drops[s] = 1 /\ dpc[s] = "done" /\ sent[s] = 1 /\ joins[s] = 1

\* C6: under fair scheduling, an output Stream that is built and on which no
\* teardown has started gets its callback invoked, again and again, unless
\* an invocation panics.
C6_CallbackKeepsRunning ==
    \A s \in Streams :
        (kind[s] = "output" /\ dpc[s] = "idle")
            ~> (tpc[s] = "incall" \/ dpc[s] # "idle" \/ tpc[s] = "panicked")

\* A live output Stream whose callback has been invoked and has returned is
\* back at the top of the loop: the next invocation is still owed.
C6_Witness ==
    \E s \in Streams :
        kind[s] = "output" /\ dpc[s] = "idle" /\ tpc[s] = "poll" /\ calls[s] >= 1

\* C7: a step that is a call of play or pause returns Ok and changes no
\* field of any Stream, no channel and no thread's position.
C7_PlayPauseNoEffect ==
    [][(ret' # ret /\ ret'.op \in {"play", "pause"}) =>
          (ret'.res = "Ok" /\ UNCHANGED streamVars)]_vars

\* pause was the caller's last call and the callback is being invoked.
C7_Witness ==
    /\ ret = Result("pause", "Ok")
    /\ \E s \in Streams : kind[s] = "output" /\ dpc[s] = "idle" /\ tpc[s] = "incall"

\* C8: an output Stream on which no teardown has started has its one audio
\* thread running (unless the callback panicked), a Stream that is not an
\* output Stream has none, and never are two invocations in progress.
C8_OneContextOneInvoker ==
    \A s \in Streams :
        /\ (kind[s] = "output" /\ drops[s] = 0 /\ tpc[s] # "panicked") =>
               (audio_thread[s] = "Some" /\ tpc[s] \in {"start", "poll", "call", "incall"})
        /\ kind[s] # "output" => tpc[s] = "none"
        /\ active[s] <= 1
        /\ active[s] = 1 <=> tpc[s] = "incall"

\* Two output Streams are in their callbacks at the same time.
C8_Witness ==
    \A s \in Streams : kind[s] = "output" /\ tpc[s] = "incall" /\ active[s] = 1

\* C9 as stated: in every reachable state the thread is absent, or the
\* thread and the sender are both present.
C9_ThreadImpliesSender ==
    \A s \in Streams :
        audio_thread[s] = "None" \/ (audio_thread[s] = "Some" /\ sender[s] = "Some")

\* C9 amended: the same, in every state but the one inside drop between the
\* send (which takes the sender) and the join (which takes the thread).
C9_ThreadImpliesSenderOutsideDrop ==
    \A s \in Streams :
        dpc[s] # "join" =>
            (audio_thread[s] = "None" \/ (audio_thread[s] = "Some" /\ sender[s] = "Some"))

\* Both sides of the invariant occur: one Stream is torn down (thread
\* absent), another is live (thread and sender present).
C9_Witness ==
    /\ \E s \in Streams : kind[s] = "output" /\ dpc[s] = "done" /\ audio_thread[s] = "None"
    /\ \E s \in Streams : audio_thread[s] = "Some" /\ sender[s] = "Some" /\ ThreadRunning(s)

\* C10: once drop has returned, the Stream's audio thread has exited.
C10_NoThreadAfterTeardown ==
    \A s \in Streams : TornDown(s) => tpc[s] \in {"none", "exited"}

\* Drop has returned and the thread it joined had received the token.
C10_Witness ==
    \E s \in Streams :
        kind[s] = "output" /\ dpc[s] = "done" /\ tpc[s] = "exited" /\ recvd[s] = 1

\* C11: the step that builds an output Stream returns Ok with the thread and
\* the sender present, starts that Stream's thread and no other, and leaves
\* the new thread at its very start: no poll, no callback.
C11_BuildDoesNotWait ==
    [][\A s \in Streams :
          (kind[s] = "none" /\ kind'[s] = "output") =>
              /\ ret' = Result("build_output_stream_raw", "Ok")
              /\ audio_thread'[s] = "Some" /\ sender'[s] = "Some"
              /\ tpc[s] = "none" /\ tpc'[s] = "start"
              /\ first'[s] = "unpolled" /\ calls'[s] = 0 /\ chan'[s] = 0
              /\ \A r \in Streams \ {s} : tpc'[r] = tpc[r]]_vars

\* The build has returned and the thread has not taken a step.
C11_Witness ==
    /\ ret = Result("build_output_stream_raw", "Ok")
    /\ \E s \in Streams :
          kind[s] = "output" /\ tpc[s] = "start" /\ first[s] = "unpolled" /\ calls[s] = 0

\* C12: an input Stream has no thread, no sender and no channel traffic, its
\* callback is never invoked, and its teardown sends and joins nothing.
C12_InputStreamInert ==
    \A s \in Streams :
        kind[s] = "input" =>
            /\ audio_thread[s] = "None" /\ sender[s] = "None" /\ tpc[s] = "none"
            /\ calls[s] = 0 /\ active[s] = 0
            /\ chan[s] = 0 /\ sent[s] = 0 /\ recvd[s] = 0 /\ joins[s] = 0
            /\ dpc[s] \notin {"joining", "faulted"}

\* The teardown of an input Stream has returned.
C12_Witness ==
    \E s \in Streams : kind[s] = "input" /\ dpc[s] = "done" /\ drops[s] >= 1

\* C13: error_callback is never invoked, for any Stream, in any state.
C13_ErrorCallbackNeverInvoked ==
    \A s \in Streams : errors[s] = 0

\* Even a teardown that faulted on a panicked audio thread reported nothing.
C13_Witness ==
    \E s \in Streams : tpc[s] = "panicked" /\ dpc[s] = "faulted" /\ errors[s] = 0

\* C16: a poll performed after the token was sent receives it and ends the
\* loop.  An invocation that begins after the send begins with the token
\* still waiting in the channel (its poll came before the send), and when it
\* ends the thread is back at the poll: no second one can begin.
C16_BoundedResponse ==
    [][\A s \in Streams :
          /\ (tpc[s] = "poll" /\ tpc'[s] # "poll" /\ sent[s] > 0) =>
                 (tpc'[s] = "break" /\ recvd'[s] = recvd[s] + 1)
          /\ (tpc[s] # "incall" /\ tpc'[s] = "incall" /\ sent[s] > 0) =>
                 (tpc[s] = "call" /\ chan[s] = 1 /\ recvd[s] = 0)
          /\ (tpc[s] = "incall" /\ tpc'[s] # "incall" /\ sent[s] > 0) =>
                 tpc'[s] \in {"poll", "panicked"}
          /\ recvd'[s] > 0 => tpc'[s] \in {"break", "exited"}]_vars

\* The token was sent after the thread's poll and before its invocation.
C16_Witness ==
    \E s \in Streams : tpc[s] = "call" /\ sent[s] = 1 /\ chan[s] = 1

\* C17: at most one token is ever sent and at most one received, the channel
\* never holds more than one, and a torn-down output Stream has had exactly
\* one sent and one received.
C17_OneShotToken ==
    \A s \in Streams :
        /\ sent[s] <= 1 /\ recvd[s] <= 1 /\ chan[s] <= 1
        /\ recvd[s] + chan[s] = sent[s]
        /\ (kind[s] = "output" /\ TornDown(s)) =>
               (sent[s] = 1 /\ recvd[s] = 1 /\ chan[s] = 0)

\* A torn-down output Stream whose token has been sent and consumed.
C17_Witness ==
    \E s \in Streams :
        kind[s] = "output" /\ TornDown(s) /\ sent[s] = 1 /\ recvd[s] = 1 /\ chan[s] = 0

\* C18: unless a callback panicked, the thread leaves the loop only with the
\* token received, it is running (so the Receiver is alive) for as long as
\* the Stream holds its sender, and it never polls a channel that is both
\* disconnected and empty.
C18_ExitOnlyByToken ==
    \A s \in Streams :
        /\ tpc[s] \in {"break", "exited"} => (recvd[s] = 1 /\ sender[s] = "None")
        /\ (kind[s] = "output" /\ sender[s] = "Some" /\ tpc[s] # "panicked") =>
               tpc[s] \in {"start", "poll", "call", "incall"}
        /\ (tpc[s] = "poll" /\ sender[s] = "None") => chan[s] >= 1

\* The thread is about to poll a channel whose sender is gone: the token is there.
C18_Witness ==
    \E s \in Streams : tpc[s] = "poll" /\ sender[s] = "None" /\ chan[s] = 1

\* C19: an invocation begins only from a poll that found the channel empty,
\* and a thread whose first poll found the token never invokes the callback.
C19_PollBeforeCallback ==
    [][\A s \in Streams :
          /\ (tpc'[s] = "incall" /\ tpc[s] # "incall") =>
                 (tpc[s] = "call" /\ first[s] # "unpolled")
          /\ (tpc'[s] = "call" /\ tpc[s] # "call") => (tpc[s] = "poll" /\ chan[s] = 0)
          /\ first'[s] = "token" =>
                 (calls'[s] = 0 /\ tpc'[s] \in {"break", "exited"})]_vars

\* The first poll found the token; the teardown returned with zero invocations.
C19_Witness ==
    \E s \in Streams : first[s] = "token" /\ dpc[s] = "done" /\ calls[s] = 0

\* What belongs to one Stream.
StreamState(r) ==
    <<kind[r], audio_thread[r], sender[r], chan[r], tpc[r], dpc[r], calls[r],
      active[r], drops[r], sent[r], recvd[r], joins[r]>>

\* C20: a step of the teardown of one Stream (or a send on its channel)
\* changes nothing of any other Stream, and a thread has left its loop only
\* if its own Stream's teardown has started and sent its own token.
C20_StreamsIndependent ==
    [][\A s \in Streams :
          /\ (dpc'[s] # dpc[s] \/ sent'[s] # sent[s]) =>
                 \A r \in Streams \ {s} : StreamState(r)' = StreamState(r)
          /\ tpc'[s] \in {"break", "exited"} => (drops'[s] >= 1 /\ sent'[s] = 1)]_vars

\* One output Stream is torn down while another is live and in its callback.
C20_Witness ==
    \E s, r \in Streams :
        /\ s # r /\ kind[s] = "output" /\ kind[r] = "output"
        /\ dpc[s] = "done" /\ tpc[s] = "exited"
        /\ dpc[r] = "idle" /\ sender[r] = "Some" /\ chan[r] = 0 /\ tpc[r] = "incall"

\* Every next() of the iterator so far returned None.
YieldsNothing(it) ==
    it # None => \A i \in 1..Len(it[1]) : it[1][i] = None

\* C14: devices() is Ok and its iterator yields nothing however often next()
\* is called; both default-device queries return a present Device, and the
\* Devices they return are equal.
C14_DeviceEnumeration ==
    /\ ret.op = "devices" => ret.res = "Ok"
    /\ YieldsNothing(host.devices)
    /\ host.in_device # None => (host.in_device[1] # None /\ host.in_device[1][1] = Device)
    /\ host.out_device # None => (host.out_device[1] # None /\ host.out_device[1][1] = Device)
    /\ (host.in_device # None /\ host.out_device # None) => host.in_device = host.out_device

\* next() was called as often as allowed and both defaults were queried.
C14_Witness ==
    /\ host.devices # None /\ Len(host.devices[1]) = MaxNext
    /\ host.in_device # None /\ host.out_device # None

\* C15: both default-config queries are Ok and return 1 channel, 48000 Hz,
\* buffer size from 0 to 2^32 - 1 and F32; both supported-config iterators
\* yield nothing.
C15_ConfigQueries ==
    LET Fixed == [channels |-> 1,
                  sample_rate |-> 48000,
                  buffer_size |-> [min |-> 0, max |-> [hi |-> 2^16 - 1, lo |-> 2^16 - 1]],
                  sample_format |-> "F32"]
    IN  /\ ret.op \in {"default_input_config", "default_output_config",
                       "supported_input_configs", "supported_output_configs"}
               => ret.res = "Ok"
        /\ host.in_config # None => host.in_config[1] = Fixed
        /\ host.out_config # None => host.out_config[1] = Fixed
        /\ YieldsNothing(host.in_configs)
        /\ YieldsNothing(host.out_configs)

\* Both defaults were queried and both iterators were asked for an element.
C15_Witness ==
    /\ host.in_config # None /\ host.out_config # None
    /\ host.in_config = host.out_config
    /\ host.in_configs # None /\ Len(host.in_configs[1]) >= 2
    /\ host.out_configs # None /\ Len(host.out_configs[1]) >= 2

====
